---- MODULE Spec2Model ----
(***************************************************************************)
(* A model of package validator (src/validator/validator.go): the          *)
(* annotation tokenizer, the built-in rule table, the custom rule registry *)
(* and the two-pass Validate pipeline with its instance-held accumulator.  *)
(*                                                                         *)
(* Go strings are sequences of one-character strings, so that Split, Trim, *)
(* Atoi, len and the pattern matchers are computed character by character. *)
(* Error messages are TLA+ strings built with \o, as fmt.Errorf builds     *)
(* them.  All text of the model is ASCII: len() counts characters.         *)
(***************************************************************************)
EXTENDS Integers, Sequences, FiniteSets, TLC

VARIABLES errors, customValidators, call, result, trace, heap, backing, held

vars == <<errors, customValidators, call, result, trace, heap, backing, held>>

-----------------------------------------------------------------------------
(* Package constants, validator.go lines 11-20.                            *)

validate == <<"v","a","l","i","d","a","t","e">>
required == <<"r","e","q","u","i","r","e","d">>
requiredMsg == "field is required"
min == <<"m","i","n">>
max == <<"m","a","x">>
email == <<"e","m","a","i","l">>
regex == <<"r","e","g","e","x">>

Lower == {"a","b","c","d","e","f","g","h","i","j","k","l","m","n","o","p","q","r","s","t","u","v","w","x","y","z"}
Upper == {"A","B","C","D","E","F","G","H","I","J","K","L","M","N","O","P","Q","R","S","T","U","V","W","X","Y","Z"}
Digits == {"0","1","2","3","4","5","6","7","8","9"}

-----------------------------------------------------------------------------
(* Text primitives of the Go standard library, as the package uses them.   *)

RECURSIVE Str(_)
\* The Go string of a character sequence.
Str(s) == IF s = <<>> THEN "" ELSE Head(s) \o Str(Tail(s))

\* strings.Index(s, sep) for a one-character sep, 1-based; 0 when absent.
IndexOf(s, c) ==
    IF \E k \in 1..Len(s) : s[k] = c
    THEN CHOOSE k \in 1..Len(s) : s[k] = c /\ \A m \in 1..(k-1) : s[m] # c
    ELSE 0

RECURSIVE Split(_, _)
\* strings.Split(s, sep) for a one-character sep: Split("", ",") is [""].
Split(s, c) ==
    LET k == IndexOf(s, c) IN
    IF k = 0 THEN <<s>>
    ELSE <<SubSeq(s, 1, k-1)>> \o Split(SubSeq(s, k+1, Len(s)), c)

RECURSIVE TrimLeft(_, _)
TrimLeft(s, c) == IF s # <<>> /\ Head(s) = c THEN TrimLeft(Tail(s), c) ELSE s

RECURSIVE TrimRight(_, _)
TrimRight(s, c) ==
    IF s # <<>> /\ s[Len(s)] = c THEN TrimRight(SubSeq(s, 1, Len(s)-1), c) ELSE s

\* strings.Trim(s, " ")
Trim(s, c) == TrimRight(TrimLeft(s, c), c)

\* strings.HasPrefix
HasPrefix(s, p) == Len(s) >= Len(p) /\ SubSeq(s, 1, Len(p)) = p

DigitVal(c) ==
    CASE c = "0" -> 0 [] c = "1" -> 1 [] c = "2" -> 2 [] c = "3" -> 3
      [] c = "4" -> 4 [] c = "5" -> 5 [] c = "6" -> 6 [] c = "7" -> 7
      [] c = "8" -> 8 [] c = "9" -> 9

DigitChar(d) ==
    CASE d = 0 -> "0" [] d = 1 -> "1" [] d = 2 -> "2" [] d = 3 -> "3"
      [] d = 4 -> "4" [] d = 5 -> "5" [] d = 6 -> "6" [] d = 7 -> "7"
      [] d = 8 -> "8" [] d = 9 -> "9"

RECURSIVE DigitsValue(_, _)
DigitsValue(s, acc) ==
    IF s = <<>> THEN acc ELSE DigitsValue(Tail(s), 10 * acc + DigitVal(Head(s)))

\* strconv.Atoi(s): an optional sign and one or more decimal digits.  The
\* parameters of the model have at most a few digits, so the int64 range
\* error of Atoi cannot arise.
Atoi(s) ==
    LET signed == s # <<>> /\ Head(s) \in {"+", "-"}
        body   == IF signed THEN Tail(s) ELSE s
    IN  IF body = <<>> \/ \E k \in 1..Len(body) : body[k] \notin Digits
        THEN [ok |-> FALSE, val |-> 0]
        ELSE [ok |-> TRUE,
              val |-> IF signed /\ Head(s) = "-"
                      THEN 0 - DigitsValue(body, 0) ELSE DigitsValue(body, 0)]

RECURSIVE NatStr(_)
NatStr(n) == IF n < 10 THEN DigitChar(n) ELSE NatStr(n \div 10) \o DigitChar(n % 10)

\* The argument of a %d verb: Go passes it as an interface value that
\* carries its dynamic type.
IntArg(n) == [type |-> "int", int |-> n, str |-> <<>>]
StringArg(s) == [type |-> "string", int |-> 0, str |-> s]

\* fmt's rendering of %d: decimal for an integer, and the bad-verb form
\* %!d(string=...) for a string operand.
FormatD(arg) ==
    IF arg.type = "int"
    THEN (IF arg.int < 0 THEN "-" \o NatStr(0 - arg.int) ELSE NatStr(arg.int))
    ELSE "%!d(string=" \o Str(arg.str) \o ")"

\* An error value: nil, or an error carrying a message.
Nil == [nil |-> TRUE, msg |-> ""]
Errorf(m) == [nil |-> FALSE, msg |-> m]

-----------------------------------------------------------------------------
(* reflect.Value of a struct field.  A field is                            *)
(*   [Name, kind, str, num, tag]                                           *)
(* with kind "string" (value str), "int" or "uint" (value num); "uint"     *)
(* stands for every kind the bound checks do not list.                     *)

\* reflect.Value.IsZero
IsZero(f) == IF f.kind = "string" THEN f.str = <<>> ELSE f.num = 0

\* reflect.Value.String: the text of a string, "<T Value>" for another kind.
FieldString(f) ==
    CASE f.kind = "string" -> f.str
      [] f.kind = "int"    -> <<"<","i","n","t"," ","V","a","l","u","e",">">>
      [] OTHER             -> <<"<","u","i","n","t"," ","V","a","l","u","e",">">>

-----------------------------------------------------------------------------
(* regexp.MatchString on the pattern language the model uses: literal      *)
(* characters, [..] classes that list their members, ^ as the first and $  *)
(* as the last character.  A class that is never closed and a leading      *)
(* repetition operator do not compile.                                     *)

RECURSIVE ParseAtoms(_)
ParseAtoms(p) ==
    IF p = <<>> THEN [ok |-> TRUE, atoms |-> <<>>]
    ELSE IF Head(p) = "["
    THEN LET close == IF \E k \in 3..Len(p) : p[k] = "]"
                      THEN CHOOSE k \in 3..Len(p) :
                               p[k] = "]" /\ \A m \in 3..(k-1) : p[m] # "]"
                      ELSE 0
         IN  IF close = 0 THEN [ok |-> FALSE, atoms |-> <<>>]
             ELSE LET rest == ParseAtoms(SubSeq(p, close+1, Len(p)))
                  IN  [ok |-> rest.ok,
                       atoms |-> <<{p[m] : m \in 2..(close-1)}>> \o rest.atoms]
    ELSE LET rest == ParseAtoms(Tail(p))
         IN  [ok |-> rest.ok, atoms |-> <<{Head(p)}>> \o rest.atoms]

\* regexp.Compile
Compile(p) ==
    LET bol  == p # <<>> /\ Head(p) = "^"
        p1   == IF bol THEN Tail(p) ELSE p
        eol  == p1 # <<>> /\ p1[Len(p1)] = "$"
        body == IF eol THEN SubSeq(p1, 1, Len(p1)-1) ELSE p1
        prs  == ParseAtoms(body)
    IN  IF body # <<>> /\ Head(body) \in {"*", "+", "?"}
        THEN [ok |-> FALSE, bol |-> bol, eol |-> eol, atoms |-> <<>>]
        ELSE [ok |-> prs.ok, bol |-> bol, eol |-> eol, atoms |-> prs.atoms]

\* A variant of ReMatch that takes the pattern to span the whole text.
ReMatch_whole(re, v) ==
    /\ Len(v) = Len(re.atoms)
    /\ \A k \in 1..Len(v) : v[k] \in re.atoms[k]

\* Regexp.MatchString: the pattern matches some substring of the text.
ReMatch(re, v) ==
    LET n == Len(re.atoms) IN
    \E s \in 1..(Len(v)+1) :
        /\ re.bol => s = 1
        /\ s + n - 1 <= Len(v)
        /\ \A k \in 1..n : v[s+k-1] \in re.atoms[k]
        /\ re.eol => s + n - 1 = Len(v)

\* regexp.MatchString(pattern, s): (matched, err)
MatchString(pattern, v) ==
    LET re == Compile(pattern) IN
    IF re.ok THEN [matched |-> ReMatch(re, v), err |-> Nil]
    ELSE [matched |-> FALSE, err |-> Errorf("error parsing regexp")]

\* MatchString for emailRegexPattern,
\*   ^[a-zA-Z0-9._%+-]+@[a-zA-Z0-9.-]+\.[a-zA-Z]{2,}$
MatchEmail(v) ==
    LET local  == Lower \cup Upper \cup Digits \cup {".", "_", "%", "+", "-"}
        domain == Lower \cup Upper \cup Digits \cup {".", "-"}
        alpha  == Lower \cup Upper
    IN  \E a \in 2..Len(v) : \E d \in (a+2)..Len(v) :
            /\ v[a] = "@"
            /\ \A k \in 1..(a-1) : v[k] \in local
            /\ v[d] = "."
            /\ \A k \in (a+1)..(d-1) : v[k] \in domain
            /\ Len(v) - d >= 2
            /\ \A k \in (d+1)..Len(v) : v[k] \in alpha

\* The fixed pattern of the email rule (validator.go line 19):
\*   ^[a-zA-Z0-9._%+-]+@[a-zA-Z0-9.-]+\.[a-zA-Z]{2,}$
emailRegexPattern ==
    <<"^","[","a","-","z","A","-","Z","0","-","9",".","_","%","+","-","]","+","@","[","a","-","z","A","-","Z","0","-","9",".","-","]","+","\\",".","[","a","-","z","A","-","Z","]","{","2",",","}","$">>

\* Validator.isMatchedRegex: the compile error of MatchString is dropped.
\* The email pattern uses ranges and repetition, outside the pattern
\* language of Compile, and is matched by MatchEmail.
isMatchedRegex(value, pattern) ==
    IF pattern = emailRegexPattern THEN MatchEmail(value)
    ELSE MatchString(pattern, value).matched

-----------------------------------------------------------------------------
(* The built-in rule table.                                                *)

\* A variant of validateMin whose comparisons are not strict.
validateMin_inclusive(f, minValue) ==
    LET n == Atoi(minValue) IN
    IF ~n.ok THEN Errorf("invalid min value")
    ELSE CASE f.kind = "string" ->
                IF Len(f.str) <= n.val
                THEN Errorf("length must be at least " \o FormatD(IntArg(n.val)))
                ELSE Nil
           [] f.kind = "int" ->
                IF f.num <= n.val
                THEN Errorf("value must be at least " \o FormatD(IntArg(n.val)))
                ELSE Nil
           [] OTHER -> Nil

\* Validator.validateMin: inside it the local min (the parsed bound, an
\* int) shadows the package constant.
validateMin(f, minValue) ==
    LET n == Atoi(minValue) IN
    IF ~n.ok THEN Errorf("invalid min value")
    ELSE CASE f.kind = "string" ->
                IF Len(f.str) < n.val
                THEN Errorf("length must be at least " \o FormatD(IntArg(n.val)))
                ELSE Nil
           [] f.kind = "int" ->
                IF f.num < n.val
                THEN Errorf("value must be at least " \o FormatD(IntArg(n.val)))
                ELSE Nil
           [] OTHER -> Nil

\* Validator.validateMax: the local is named max, so the min handed to
\* Errorf is the package constant min, the string "min".
validateMax(f, maxValue) ==
    LET n == Atoi(maxValue) IN
    IF ~n.ok THEN Errorf("invalid max value")
    ELSE CASE f.kind = "string" ->
                IF Len(f.str) > n.val
                THEN Errorf("length must be at least " \o FormatD(StringArg(min)))
                ELSE Nil
           [] f.kind = "int" ->
                IF f.num > n.val
                THEN Errorf("value must be at least " \o FormatD(StringArg(min)))
                ELSE Nil
           [] OTHER -> Nil

\* The rule name of a token: the text before the first "=", trimmed.
RuleName(rule) == Trim(Split(rule, "=")[1], " ")

\* The parameter of a token: the text between the first and the second
\* "=", trimmed; empty when the token has no "=".
RuleValue(rule) ==
    LET parts == Split(rule, "=") IN
    IF Len(parts) > 1 THEN Trim(parts[2], " ") ELSE <<>>

\* Validator.applyValidationRule
applyValidationRule(rule, f) ==
    LET ruleName  == RuleName(rule)
        ruleValue == RuleValue(rule)
    IN  CASE ruleName = required ->
                IF IsZero(f) THEN Errorf("field is required") ELSE Nil
          [] ruleName = min -> validateMin(f, ruleValue)
          [] ruleName = max -> validateMax(f, ruleValue)
          [] ruleName = email ->
                IF ~isMatchedRegex(FieldString(f), emailRegexPattern)
                THEN Errorf("invalid email format") ELSE Nil
          [] ruleName = regex ->
                IF ~isMatchedRegex(FieldString(f), ruleValue)
                THEN Errorf("value does not match required format") ELSE Nil
          [] OTHER -> Nil

-----------------------------------------------------------------------------
(* Custom validator functions: the two closures ExampleFour registers.     *)

valid_username == <<"v","a","l","i","d","_","u","s","e","r","n","a","m","e">>
valid_department == <<"v","a","l","i","d","_","d","e","p","a","r","t","m","e","n","t">>

\* The closure registered under "valid_username" (lines 321-327): it
\* builds an error and drops it, and returns nil for every value.
usernameFn(f) == Nil

\* The closure registered under "valid_department" (lines 329-336).
departmentFn(f) ==
    IF ~HasPrefix(FieldString(f), <<"D","E","P","_">>)
    THEN Errorf("department must start with DEPT_") ELSE Nil

\* validator(currentFieldVal) for a registered function.
CallCustom(fn, f) ==
    CASE fn = "usernameFn"   -> usernameFn(f)
      [] fn = "departmentFn" -> departmentFn(f)

-----------------------------------------------------------------------------
(* Bounds and input domains.                                               *)

\* The longest struct the multi-field inputs have.
MaxFields == 2
\* The most keys the registry holds.
MaxRegistered == 2

Threads == {1, 2}

RECURSIVE Join(_, _)
\* strings.Join for a one-character separator.
Join(parts, c) ==
    IF Len(parts) = 0 THEN <<>>
    ELSE IF Len(parts) = 1 THEN parts[1]
    ELSE parts[1] \o <<c>> \o Join(Tail(parts), c)

Tok(name, param) == name \o <<"=">> \o param
Tag(tokens) == Join(tokens, ",")

StrField(v, tag) == [kind |-> "string", str |-> v, num |-> 0, tag |-> tag]
IntField(n, tag) == [kind |-> "int", str |-> <<>>, num |-> n, tag |-> tag]
UintField(n, tag) == [kind |-> "uint", str |-> <<>>, num |-> n, tag |-> tag]

FieldName(k) == "F" \o NatStr(k)

\* A struct value: its fields in declaration order, named by position.
MkStruct(fs) ==
    [k \in 1..Len(fs) |->
        [Name |-> FieldName(k), kind |-> fs[k].kind, str |-> fs[k].str,
         num |-> fs[k].num, tag |-> fs[k].tag]]

StringValues ==
    { <<>>, <<"a">>, <<"a","b">>,
      <<"a","@","b",".","c","o">>, <<"D","E","P","_","x">> }

StringTokens ==
    { required, Tok(min, <<"2">>), Tok(max, <<"3">>), min, Tok(min, <<"x">>),
      <<" ">> \o min \o <<" ","="," ","2"," ">>, Tok(Tok(min, <<"2">>), <<"9">>),
      Tok(max, <<>>), email, Tok(regex, <<"^","a","b","$">>),
      Tok(regex, <<"a","b">>), Tok(regex, <<"b">>), Tok(regex, <<"[","a">>), regex,
      Tok(regex, <<"[","a","b","]","c">>),
      valid_department, valid_username }

IntValues == { -2, 0, 2, 3, 4 }

IntTokens ==
    { required, Tok(min, <<"2">>), Tok(max, <<"3">>), Tok(min, <<"-","1">>),
      Tok(min, <<"x">>), max, email, Tok(regex, <<"n","t">>), valid_department }

UintValues == { 0, 5 }

UintTokens == { required, Tok(min, <<"9">>), Tok(max, <<"3">>), Tok(max, <<"x">>), email }

\* One-field structs: every value of a kind under every single-token tag.
SingleFields ==
    {StrField(v, t) : v \in StringValues, t \in StringTokens}
    \cup {IntField(n, t) : n \in IntValues, t \in IntTokens}
    \cup {UintField(n, t) : n \in UintValues, t \in UintTokens}

\* Fields with several tokens, for the structs of up to MaxFields fields.
MultiPool ==
    { StrField(<<>>, Tag(<<required, valid_department>>)),
      StrField(<<"a">>, Tag(<<valid_department, Tok(min, <<"2">>), Tok(max, <<"0">>)>>)),
      StrField(<<"a","b">>, <<>>),
      StrField(<<"a","b">>,
               Tag(<<valid_department, <<" ">> \o valid_department>>)),
      IntField(0, Tag(<<required, <<>>, min>>)) }

Structs ==
    {MkStruct(<<f>>) : f \in SingleFields}
    \cup UNION {{MkStruct(fs) : fs \in [1..n -> MultiPool]} : n \in 1..MaxFields}

\* The argument of Validate as reflect.ValueOf sees it: its Kind, the Kind
\* of Elem() for a pointer, and the fields of the struct it holds.
PtrTo(st) == [kind |-> "ptr", elem |-> "struct", fields |-> st]
NilInterface == [kind |-> "invalid", elem |-> "none", fields |-> <<>>]
IntValue == [kind |-> "int", elem |-> "none", fields |-> <<>>]
NilPtr == [kind |-> "ptr", elem |-> "invalid", fields |-> <<>>]
PtrToInt == [kind |-> "ptr", elem |-> "int", fields |-> <<>>]
StructValue(st) == [kind |-> "struct", elem |-> "none", fields |-> st]

Malformed ==
    { NilInterface, IntValue, NilPtr, PtrToInt }
    \cup {StructValue(MkStruct(<<f>>)) : f \in MultiPool}

Inputs == {PtrTo(st) : st \in Structs} \cup Malformed

RegKeys == { valid_department, Tok(min, <<"2">>), min, <<>> }
RegFuncs == { "usernameFn", "departmentFn" }

\* The registrations a caller makes: the department check under each key,
\* and the username check in place of it under "valid_department".
Registrations ==
    {<<k, "departmentFn">> : k \in RegKeys}
    \cup {<<valid_department, fn>> : fn \in RegFuncs}

-----------------------------------------------------------------------------
(* The Validator instance and its callers.                                 *)
(*   errors, customValidators   the fields of the instance (lines 48-51)   *)
(*   call[t]     caller t's position in Validate and its locals            *)
(*   result[t]   what caller t's last Validate returned                    *)
(*   trace[t]    the rule evaluations and custom lookups of caller t's     *)
(*               current call, in the order they were made                 *)
(*   heap        the backing arrays of the slices, by address              *)
(*   backing     the array v.errors points to and its capacity; errors is  *)
(*               what a reader of v.errors sees, its len() first elements  *)
(*   held        the aggregate a caller kept from an earlier call: its     *)
(*               slice header, what it held on return, and the registry    *)
(*               of that time                                              *)

NoResult == [kind |-> "none", msg |-> "", errs |-> <<>>]
NilResult == [kind |-> "nil", msg |-> "", errs |-> <<>>]
ErrorString(m) == [kind |-> "errorString", msg |-> m, errs |-> <<>>]
Aggregate(es) == [kind |-> "ValidationErrors", msg |-> "", errs |-> es]

ValidationError(field, message) == [Field |-> field, Message |-> message]
NoEntry == ValidationError("", "")

\* The data pointer and capacity of a nil or empty slice: address 0 is
\* the array of no elements.
NoSlice == [arr |-> 0, cap |-> 0]

NoHeld == [kind |-> "none", arr |-> 0, len |-> 0, errs |-> <<>>, regs |-> <<>>]

\* A caller outside Validate.  prev is the kind of value the caller's
\* previous Validate call returned ("none" before its first call); loaded
\* and at are the slice read from v.errors for an append.
Idle == [pc |-> "idle", input |-> NilInterface, i |-> 0, j |-> 0,
         loaded |-> <<>>, at |-> NoSlice, pending |-> NoEntry, prev |-> "none"]

\* strings.Split(tagVal, ",")
Rules(f) == Split(f.tag, ",")

\* A variant of NextAnnotated that skips no field.
NextAnnotated_all(F, k) == IF k <= Len(F) THEN k ELSE Len(F) + 1

\* The next field from index k on whose tag is not empty (the others are
\* skipped by `continue`), Len(F)+1 when there is none.
NextAnnotated(F, k) ==
    IF \E m \in k..Len(F) : F[m].tag # <<>>
    THEN CHOOSE m \in k..Len(F) :
             F[m].tag # <<>> /\ \A n \in k..(m-1) : F[n].tag = <<>>
    ELSE Len(F) + 1

\* A variant of After that leaves a field after its first token.
After_nextField(F, i, j) == <<NextAnnotated(F, i+1), 1>>

\* The loop position after token j of field i.
After(F, i, j) ==
    IF j < Len(Rules(F[i])) THEN <<i, j+1>> ELSE <<NextAnnotated(F, i+1), 1>>

\* Validate line 90, reached when applyCustomValidators returns.
ToFinish(c) ==
    [c EXCEPT !.pc = "finish", !.i = 0, !.j = 0, !.loaded = <<>>,
              !.at = NoSlice, !.pending = NoEntry]

\* The loops of applyCustomValidators (line 214) at position pos.
ToCustom(c, pos) ==
    IF pos[1] <= Len(c.input.fields)
    THEN [c EXCEPT !.pc = "custom", !.i = pos[1], !.j = pos[2],
                   !.loaded = <<>>, !.at = NoSlice, !.pending = NoEntry]
    ELSE ToFinish(c)

\* A variant of ToBuiltin that goes on to the custom rules when the
\* built-in rules of one field are through.
ToBuiltin_oneField(c, pos) ==
    IF pos[1] <= Len(c.input.fields) /\ (c.i = 0 \/ pos[1] = c.i)
    THEN [c EXCEPT !.pc = "builtin", !.i = pos[1], !.j = pos[2],
                   !.loaded = <<>>, !.at = NoSlice, !.pending = NoEntry]
    ELSE ToCustom(c, <<NextAnnotated(c.input.fields, 1), 1>>)

\* The loops of validateFields (line 102) at position pos; when they are
\* over, Validate calls applyCustomValidators (line 88).
ToBuiltin(c, pos) ==
    IF pos[1] <= Len(c.input.fields)
    THEN [c EXCEPT !.pc = "builtin", !.i = pos[1], !.j = pos[2],
                   !.loaded = <<>>, !.at = NoSlice, !.pending = NoEntry]
    ELSE ToCustom(c, <<NextAnnotated(c.input.fields, 1), 1>>)

Event(pass, i, j, fn, failed) ==
    [pass |-> pass, i |-> i, j |-> j, fn |-> fn, failed |-> failed]

Init ==
    /\ errors = <<>>
    /\ customValidators = <<>>
    /\ call = [t \in Threads |-> Idle]
    /\ result = [t \in Threads |-> NoResult]
    /\ trace = [t \in Threads |-> <<>>]
    /\ heap = (0 :> <<>>)
    /\ backing = NoSlice
    /\ held = NoHeld

\* Validator.RegisterCustomValidator (lines 62-64)
RegisterCustomValidator(tagVal, fn) ==
    /\ \A t \in Threads : call[t].pc = "idle"
    /\ Cardinality(DOMAIN customValidators \cup {tagVal}) <= MaxRegistered
    /\ customValidators' =
         [k \in DOMAIN customValidators \cup {tagVal} |->
             IF k = tagVal THEN fn ELSE customValidators[k]]
    /\ UNCHANGED <<errors, call, result, trace, heap, backing, held>>

\* The elements 1..n of the array at address a.
View(hp, a, n) == SubSeq(hp[a], 1, n)

\* The arrays a slice in use points to: v.errors, the slices the callers
\* read for an append, and the aggregate a caller kept.
Live(b, cl, h) ==
    {0, b.arr, h.arr}
    \cup {cl[t].at.arr : t \in {u \in Threads : cl[u].pc \in {"builtinAppend", "customAppend"}}}

\* The heap less the arrays nothing points to.
Collect(hp, live) == [a \in DOMAIN hp \cap live |-> hp[a]]

\* The address of a new array.
NewArray(used) == CHOOSE a \in 1..(Cardinality(used) + 1) : a \notin used

\* The capacity append gives the array it allocates for one more element
\* (ValidationError is 32 bytes: 1, 2, 4, 8, ... elements).
GrowCap(cap) == IF cap = 0 THEN 1 ELSE 2 * cap

\* A variant of ResetErrors that keeps what the accumulator holds.
ResetErrors_keep == [view |-> errors, at |-> backing]

\* A variant of ResetErrors that empties the accumulator and keeps its
\* array, as v.errors[:0] does.
ResetErrors_reuse == [view |-> <<>>, at |-> backing]

\* v.errors = ValidationErrors{} (line 68): the slice stored has no
\* elements and, being a literal without elements, no array of its own.
ResetErrors == [view |-> <<>>, at |-> NoSlice]

\* A variant of CheckInput without the check of the pointer's referent.
CheckInput_pointerOnly(s) ==
    IF s.kind # "ptr"
    THEN ErrorString("validation requires a struct pointer input")
    ELSE NoResult

\* The kind checks of Validate (lines 70-82): the error returned for an
\* argument that is no pointer to a struct, NoResult for one that is.
CheckInput(s) ==
    IF s.kind # "ptr"
    THEN ErrorString("validation requires a struct pointer input")
    ELSE IF s.elem # "struct"
    THEN ErrorString("refOut must be a pointer struct !")
    ELSE NoResult

\* Validate, lines 67-85: the accumulator is reset, the argument's kind is
\* checked, and the loops of validateFields are entered.
Validate(t, s) ==
    LET c == [call[t] EXCEPT !.input = s] IN
    /\ call[t].pc = "idle"
    /\ errors' = ResetErrors.view
    /\ trace' = [trace EXCEPT ![t] = <<>>]
    /\ result' = [result EXCEPT ![t] = CheckInput(s)]
    /\ call' = [call EXCEPT ![t] =
                  IF CheckInput(s) # NoResult THEN [c EXCEPT !.pc = "done"]
                  ELSE ToBuiltin(c, <<NextAnnotated(s.fields, 1), 1>>)]
    /\ backing' = ResetErrors.at
    /\ heap' = Collect(heap, Live(backing', call', held))
    /\ UNCHANGED <<customValidators, held>>

\* A variant of AppendError that puts the new entry first.
AppendError_front(es, e) == <<e>> \o es

\* append(v.errors, ValidationError{...}) on the slice that was read.
AppendError(es, e) == Append(es, e)

\* append(s, e) for the slice s a caller read from v.errors, of len(s)
\* elements of the array at c.at: the element is written into the array
\* when it has room, and into a new, larger array with a copy of the
\* elements otherwise.  The result is the slice (its elements, its array
\* and capacity) and the heap.
AppendSlice(c) ==
    LET n  == Len(c.loaded)
        es == AppendError(View(heap, c.at.arr, n), c.pending)
    IN  IF n < c.at.cap
        THEN [view |-> es, at |-> c.at,
              heap |-> [heap EXCEPT ![c.at.arr] = es \o SubSeq(@, Len(es) + 1, Len(@))]]
        ELSE LET a   == NewArray(Live(backing, call, held))
                 cap == GrowCap(c.at.cap)
             IN  [view |-> es, at |-> [arr |-> a, cap |-> cap],
                  heap |-> (a :> (es \o [k \in 1..(cap - Len(es)) |-> NoEntry])) @@ heap]

\* One iteration of the inner loop of validateFields (lines 114-115):
\* the rule is applied; a failure reads v.errors for the append.
validateFields(t) ==
    LET c    == call[t]
        F    == c.input.fields
        f    == F[c.i]
        rule == Rules(f)[c.j]
        err  == applyValidationRule(rule, f)
    IN  /\ c.pc = "builtin"
        /\ trace' = [trace EXCEPT ![t] =
                        Append(@, Event("builtin", c.i, c.j, "", ~err.nil))]
        /\ call' = [call EXCEPT ![t] =
                      IF err.nil THEN ToBuiltin(c, After(F, c.i, c.j))
                      ELSE [c EXCEPT !.pc = "builtinAppend", !.loaded = errors,
                                     !.at = backing,
                                     !.pending = ValidationError(f.Name, err.msg)]]
        /\ UNCHANGED <<errors, customValidators, result, heap, backing, held>>

\* v.errors = append(v.errors, ValidationError{...}) (lines 116-119): the
\* store of the appended slice.
validateFieldsAppend(t) ==
    LET c  == call[t]
        sl == AppendSlice(c)
    IN  /\ c.pc = "builtinAppend"
        /\ errors' = sl.view
        /\ backing' = sl.at
        /\ call' = [call EXCEPT ![t] = ToBuiltin(c, After(c.input.fields, c.i, c.j))]
        /\ heap' = Collect(sl.heap, Live(backing', call', held))
        /\ UNCHANGED <<customValidators, result, trace, held>>

\* A variant of Lookup that trims the token before the lookup.
Lookup_trimmed(rule) ==
    IF Trim(rule, " ") \in DOMAIN customValidators
    THEN customValidators[Trim(rule, " ")] ELSE ""

\* A variant of Lookup that looks the rule name of the token up, the text
\* before its first "=", as the built-in dispatch does.
Lookup_byName(rule) ==
    IF RuleName(rule) \in DOMAIN customValidators
    THEN customValidators[RuleName(rule)] ELSE ""

\* The registry lookup of line 228: the key is the token as split off the
\* tag, neither trimmed nor cut at "="; "" when the lookup misses.
Lookup(rule) ==
    IF rule \in DOMAIN customValidators THEN customValidators[rule] ELSE ""

\* One iteration of the inner loop of applyCustomValidators (lines
\* 226-230): the lookup, and the call of the function found.
applyCustomValidators(t) ==
    LET c    == call[t]
        F    == c.input.fields
        f    == F[c.i]
        rule == Rules(f)[c.j]
        fn   == Lookup(rule)
        err  == IF fn # "" THEN CallCustom(fn, f) ELSE Nil
    IN  /\ c.pc = "custom"
        /\ trace' = [trace EXCEPT ![t] =
                        Append(@, Event("custom", c.i, c.j, fn, ~err.nil))]
        /\ call' = [call EXCEPT ![t] =
                      IF err.nil THEN ToCustom(c, After(F, c.i, c.j))
                      ELSE [c EXCEPT !.pc = "customAppend", !.loaded = errors,
                                     !.at = backing,
                                     !.pending = ValidationError(f.Name, err.msg)]]
        /\ UNCHANGED <<errors, customValidators, result, heap, backing, held>>

\* v.errors = append(v.errors, ValidationError{...}) (lines 231-234).
applyCustomValidatorsAppend(t) ==
    LET c  == call[t]
        sl == AppendSlice(c)
    IN  /\ c.pc = "customAppend"
        /\ errors' = sl.view
        /\ backing' = sl.at
        /\ call' = [call EXCEPT ![t] = ToCustom(c, After(c.input.fields, c.i, c.j))]
        /\ heap' = Collect(sl.heap, Live(backing', call', held))
        /\ UNCHANGED <<customValidators, result, trace, held>>

\* A variant of HasErrors that takes the accumulator to be non-empty.
HasErrors_always(es) == TRUE

\* len(v.errors) > 0 (line 90)
HasErrors(es) == Len(es) > 0

\* if len(v.errors) > 0 (line 90); return nil (line 94).
ValidateLen(t) ==
    LET c == call[t] IN
    /\ c.pc = "finish"
    /\ IF HasErrors(errors)
       THEN /\ call' = [call EXCEPT ![t].pc = "return"]
            /\ UNCHANGED result
       ELSE /\ call' = [call EXCEPT ![t].pc = "done"]
            /\ result' = [result EXCEPT ![t] = NilResult]
    /\ UNCHANGED <<errors, customValidators, trace, heap, backing, held>>

\* return v.errors (line 91)
ValidateReturn(t) ==
    /\ call[t].pc = "return"
    /\ result' = [result EXCEPT ![t] = Aggregate(errors)]
    /\ call' = [call EXCEPT ![t].pc = "done"]
    /\ UNCHANGED <<errors, customValidators, trace, heap, backing, held>>

\* The caller is done with the value Validate returned.
Discard(t) ==
    /\ call[t].pc = "done"
    /\ call' = [call EXCEPT ![t] = [Idle EXCEPT !.prev = result[t].kind]]
    /\ result' = [result EXCEPT ![t] = NoResult]
    /\ trace' = [trace EXCEPT ![t] = <<>>]
    /\ UNCHANGED <<errors, customValidators, heap, backing, held>>

\* The caller keeps the aggregate Validate returned and goes on: the
\* value holds the array and the length v.errors had on return, which are
\* those it has now, as nothing ran on the instance in between.
Retain(t) ==
    /\ call[t].pc = "done"
    /\ result[t].kind = "ValidationErrors"
    /\ held' = [kind |-> "ValidationErrors", arr |-> backing.arr,
                len |-> Len(result[t].errs), errs |-> result[t].errs,
                regs |-> customValidators]
    /\ call' = [call EXCEPT ![t] = [Idle EXCEPT !.prev = result[t].kind]]
    /\ result' = [result EXCEPT ![t] = NoResult]
    /\ trace' = [trace EXCEPT ![t] = <<>>]
    /\ heap' = Collect(heap, Live(backing, call', held'))
    /\ UNCHANGED <<errors, customValidators, backing>>

\* One caller: registrations and Validate calls, one after the other.
Next ==
    \/ \E r \in Registrations : RegisterCustomValidator(r[1], r[2])
    \/ \E s \in Inputs : Validate(1, s)
    \/ validateFields(1)
    \/ validateFieldsAppend(1)
    \/ applyCustomValidators(1)
    \/ applyCustomValidatorsAppend(1)
    \/ ValidateLen(1)
    \/ ValidateReturn(1)
    \/ Discard(1)

Spec == Init /\ [][Next]_vars

\* One caller that keeps an aggregate while it registers functions and
\* validates other structs.
KeepStructs ==
    { MkStruct(<<StrField(<<>>, required)>>),
      MkStruct(<<StrField(<<"D","E","P","_","x">>, Tag(<<required, valid_department>>))>>),
      MkStruct(<<StrField(<<"a">>, Tag(<<valid_department, Tok(min, <<"2">>), Tok(max, <<"0">>)>>))>>),
      MkStruct(<<StrField(<<"a">>, Tag(<<valid_department, Tok(min, <<"2">>), Tok(max, <<"0">>)>>)),
                 IntField(0, Tag(<<required, <<>>, min>>))>>) }

KeepInputs == {PtrTo(st) : st \in KeepStructs} \cup {IntValue}

NextKeep ==
    \/ \E r \in Registrations : RegisterCustomValidator(r[1], r[2])
    \/ \E s \in KeepInputs : Validate(1, s)
    \/ validateFields(1)
    \/ validateFieldsAppend(1)
    \/ applyCustomValidators(1)
    \/ applyCustomValidatorsAppend(1)
    \/ ValidateLen(1)
    \/ ValidateReturn(1)
    \/ Discard(1)
    \/ Retain(1)

SpecKeep == Init /\ [][NextKeep]_vars

\* Two callers share the instance: the registry is populated before the
\* first Validate call, and each caller makes one call; the two calls
\* overlap freely.
ConcStructs ==
    { MkStruct(<<StrField(<<>>, required)>>),
      MkStruct(<<StrField(<<"a">>, Tag(<<Tok(min, <<"2">>), valid_department>>))>>),
      MkStruct(<<StrField(<<"D","E","P","_","x">>, Tag(<<required, valid_department>>))>>) }

ConcInputs == {PtrTo(st) : st \in ConcStructs} \cup {IntValue}

ConcRegistries ==
    { <<>>, [k \in {valid_department} |-> "departmentFn"] }

InitConc ==
    /\ errors = <<>>
    /\ customValidators \in ConcRegistries
    /\ call = [t \in Threads |-> Idle]
    /\ result = [t \in Threads |-> NoResult]
    /\ trace = [t \in Threads |-> <<>>]
    /\ heap = (0 :> <<>>)
    /\ backing = NoSlice
    /\ held = NoHeld

NextConc ==
    \E t \in Threads :
        \/ \E s \in ConcInputs : Validate(t, s)
        \/ validateFields(t)
        \/ validateFieldsAppend(t)
        \/ applyCustomValidators(t)
        \/ applyCustomValidatorsAppend(t)
        \/ ValidateLen(t)
        \/ ValidateReturn(t)

SpecConc == InitConc /\ [][NextConc]_vars

-----------------------------------------------------------------------------
(* Vocabulary of the properties.                                           *)

Done(t) == call[t].pc = "done"

\* The argument is a pointer to a struct.
WellFormed(s) == s.kind = "ptr" /\ s.elem = "struct"

\* The evaluations of a trace that failed, in the order they were made.
FailedEvents(tr) == SelectSeq(tr, LAMBDA e : e.failed)

\* The aggregate a result carries: empty for nil.
Entries(r) == IF r.kind = "ValidationErrors" THEN r.errs ELSE <<>>

\* Position (field, token) of evaluation a is before that of b.
PosBefore(a, b) == a.i < b.i \/ (a.i = b.i /\ a.j < b.j)
PosNotAfter(a, b) == a.i < b.i \/ (a.i = b.i /\ a.j <= b.j)

\* The k-th entry of the aggregate is attributed to the field of the k-th
\* failed evaluation.
Attributed(t) ==
    LET fe == FailedEvents(trace[t])
        es == Entries(result[t])
    IN  /\ Len(es) = Len(fe)
        /\ \A k \in 1..Len(es) : es[k].Field = call[t].input.fields[fe[k].i].Name

\* C1 as stated: the entries of the aggregate are ordered by field, and
\* within a field by token position, whichever pass produced them.
C1_FieldTokenOrder ==
    (Done(1) /\ WellFormed(call[1].input)) =>
        LET fe == FailedEvents(trace[1]) IN
        /\ Attributed(1)
        /\ \A k, l \in 1..Len(fe) : k < l => PosNotAfter(fe[k], fe[l])

\* C1, amended: the entries of one pass (built-in rules, custom rules)
\* are ordered by field declaration order and, within a field, by token
\* position; every entry of the built-in pass precedes every entry of the
\* custom pass.
C1_OrderWithinPass ==
    (Done(1) /\ WellFormed(call[1].input)) =>
        LET fe == FailedEvents(trace[1]) IN
        /\ Attributed(1)
        /\ \A k, l \in 1..Len(fe) : k < l =>
              /\ fe[k].pass = fe[l].pass => PosBefore(fe[k], fe[l])
              /\ fe[k].pass = "custom" => fe[l].pass = "custom"

\* A call on a two-field struct whose first field fails a built-in and a
\* custom rule and whose second field fails two built-in rules.
C1_Witness ==
    /\ Done(1) /\ WellFormed(call[1].input)
    /\ Len(call[1].input.fields) = 2
    /\ LET fe == FailedEvents(trace[1]) IN
       /\ \E k \in 1..Len(fe) : fe[k].pass = "builtin" /\ fe[k].i = 1
       /\ \E k \in 1..Len(fe) : fe[k].pass = "custom" /\ fe[k].i = 1
       /\ \E k, l \in 1..Len(fe) :
             k < l /\ fe[k].pass = "builtin" /\ fe[l].pass = "builtin"
                   /\ fe[k].i = 2 /\ fe[l].i = 2

\* C3 as stated: Validate returns nil exactly when the call accumulated no
\* rule violation.
C3_NilIffNoViolation ==
    Done(1) => (result[1].kind = "nil" <=> FailedEvents(trace[1]) = <<>>)

\* The struct satisfies every rule its annotations declare, built-in and
\* registered.
SatisfiesAll(F) ==
    \A i \in 1..Len(F) : F[i].tag # <<>> =>
        \A j \in 1..Len(Rules(F[i])) :
            LET rule == Rules(F[i])[j] IN
            /\ applyValidationRule(rule, F[i]).nil
            /\ rule \in DOMAIN customValidators =>
                  CallCustom(customValidators[rule], F[i]).nil

\* C3, amended: on a pointer to a struct, Validate returns nil exactly when
\* the call accumulated no rule violation; no call returns an empty
\* ValidationErrors; a struct that satisfies every declared rule yields nil.
C3_NilIffNoViolationOnStruct ==
    Done(1) =>
        /\ WellFormed(call[1].input) =>
              /\ result[1].kind = "nil" <=> FailedEvents(trace[1]) = <<>>
              /\ result[1].kind = "nil" <=> errors = <<>>
              /\ SatisfiesAll(call[1].input.fields) => result[1].kind = "nil"
        /\ result[1].kind = "ValidationErrors" => result[1].errs # <<>>

\* A call on a struct with an annotated field that satisfies its rules
\* returned nil.
C3_Witness ==
    /\ Done(1) /\ WellFormed(call[1].input)
    /\ result[1].kind = "nil"
    /\ Len(trace[1]) >= 2
    /\ SatisfiesAll(call[1].input.fields)

\* C4: for an argument that is no pointer to a struct, Validate returns an
\* error that is no ValidationErrors, no built-in rule is evaluated, no
\* custom function is called and nothing is accumulated.
C4_MalformedInput ==
    (Done(1) /\ ~WellFormed(call[1].input)) =>
        /\ result[1].kind = "errorString"
        /\ trace[1] = <<>>
        /\ errors = <<>>

\* A call on a struct passed by value, whose field would fail its rules.
C4_Witness ==
    /\ Done(1)
    /\ call[1].input.kind = "struct"
    /\ ~SatisfiesAll(call[1].input.fields)
    /\ result[1].kind = "errorString"

-----------------------------------------------------------------------------
(* What one Validate call returns when it runs alone on a fresh instance   *)
(* that holds registry reg: the reference of C2 and C7.                    *)

RECURSIVE Flatten(_)
Flatten(ss) == IF ss = <<>> THEN <<>> ELSE Head(ss) \o Flatten(Tail(ss))

BuiltinErrorsOf(f) ==
    IF f.tag = <<>> THEN <<>>
    ELSE Flatten([j \in 1..Len(Rules(f)) |->
            LET e == applyValidationRule(Rules(f)[j], f) IN
            IF e.nil THEN <<>> ELSE <<ValidationError(f.Name, e.msg)>>])

CustomErrorsOf(f, reg) ==
    IF f.tag = <<>> THEN <<>>
    ELSE Flatten([j \in 1..Len(Rules(f)) |->
            LET rule == Rules(f)[j]
                e    == IF rule \in DOMAIN reg THEN CallCustom(reg[rule], f) ELSE Nil
            IN  IF e.nil THEN <<>> ELSE <<ValidationError(f.Name, e.msg)>>])

AloneErrors(F, reg) ==
    Flatten([i \in 1..Len(F) |-> BuiltinErrorsOf(F[i])])
    \o Flatten([i \in 1..Len(F) |-> CustomErrorsOf(F[i], reg)])

AloneResult(s, reg) ==
    IF ~WellFormed(s)
    THEN (IF s.kind # "ptr"
          THEN ErrorString("validation requires a struct pointer input")
          ELSE ErrorString("refOut must be a pointer struct !"))
    ELSE IF AloneErrors(s.fields, reg) = <<>> THEN NilResult
    ELSE Aggregate(AloneErrors(s.fields, reg))

\* C2: when two Validate calls on one instance overlap, each returns
\* exactly the errors of its own struct, as if it had run alone.
C2_CallScoped ==
    \A t \in Threads : Done(t) => result[t] = AloneResult(call[t].input, customValidators)

\* C7: a Validate call returns what it would return on a fresh instance
\* with the same registry, whatever the earlier calls on the instance
\* accumulated or returned.
C7_HistoryIndependent ==
    Done(1) => result[1] = AloneResult(call[1].input, customValidators)

\* A call that returned nil right after a call that returned an aggregate.
C7_Witness ==
    /\ Done(1)
    /\ call[1].prev = "ValidationErrors"
    /\ result[1].kind = "nil"
    /\ Len(trace[1]) >= 2

-----------------------------------------------------------------------------
(* Evaluations and the entries they produced.                              *)

\* The (field, token) positions of the annotated fields of a struct.
Tokens(F) ==
    UNION {{<<i, j>> : j \in 1..Len(Rules(F[i]))} :
              i \in {m \in 1..Len(F) : F[m].tag # <<>>}}

TokenAt(F, p) == Rules(F[p[1]])[p[2]]

\* The indexes of the evaluations of pass `pass` at position p.
EventsAt(tr, pass, p) ==
    {k \in 1..Len(tr) : tr[k].pass = pass /\ tr[k].i = p[1] /\ tr[k].j = p[2]}

\* The number of failed evaluations among the first k of a trace.
FailRank(tr, k) == Len(FailedEvents(SubSeq(tr, 1, k)))

\* Evaluation k of caller 1's trace failed, and the aggregate holds the
\* entry (field, message) for it at the rank of the failure.
Recorded(k, message) ==
    LET tr == trace[1]
        es == Entries(result[1])
        r  == FailRank(tr, k)
    IN  /\ tr[k].failed
        /\ r <= Len(es)
        /\ es[r] = ValidationError(call[1].input.fields[tr[k].i].Name, message)

\* The decimal text of an integer.
Decimal(n) == IF n < 0 THEN "-" \o NatStr(0 - n) ELSE NatStr(n)

\* The field measures above N (length of a text, value of an integer).
Above(f, n) ==
    (f.kind = "string" /\ Len(f.str) > n) \/ (f.kind = "int" /\ f.num > n)
Below(f, n) ==
    (f.kind = "string" /\ Len(f.str) < n) \/ (f.kind = "int" /\ f.num < n)

\* C5: when a max=N rule fails, the message recorded for the field
\* reports the bound N (in any of the wordings of the bound checks).
C5_MaxReportsBound ==
    (Done(1) /\ WellFormed(call[1].input)) =>
        LET F == call[1].input.fields IN
        \A p \in Tokens(F) :
            LET n == Atoi(RuleValue(TokenAt(F, p))) IN
            (RuleName(TokenAt(F, p)) = max /\ n.ok /\ Above(F[p[1]], n.val)) =>
                \A k \in EventsAt(trace[1], "builtin", p) :
                    \E w \in {"length must be at most ", "value must be at most ",
                              "length must be at least ", "value must be at least "} :
                        Recorded(k, w \o Decimal(n.val))

\* C6: a regex rule whose pattern does not compile is recorded for the
\* field with a message other than that of a text that does not match.
C6_InvalidPatternDistinct ==
    (Done(1) /\ WellFormed(call[1].input)) =>
        LET F == call[1].input.fields IN
        \A p \in Tokens(F) :
            (RuleName(TokenAt(F, p)) = regex /\ ~Compile(RuleValue(TokenAt(F, p))).ok) =>
                \A k \in EventsAt(trace[1], "builtin", p) :
                    /\ trace[1][k].failed
                    /\ ~Recorded(k, "value does not match required format")

\* C8: every token of every annotated field is evaluated once in the
\* built-in pass and looked up once in the custom pass, whatever failed
\* before; the aggregate holds one entry per failed evaluation, in the
\* order of the evaluations; an unparsable min or max parameter is such a
\* failure and the call goes on.
C8_NoShortCircuit ==
    (Done(1) /\ WellFormed(call[1].input)) =>
        LET F  == call[1].input.fields
            tr == trace[1]
        IN  /\ \A p \in Tokens(F) :
                  /\ Cardinality(EventsAt(tr, "builtin", p)) = 1
                  /\ Cardinality(EventsAt(tr, "custom", p)) = 1
            /\ Len(tr) = 2 * Cardinality(Tokens(F))
            /\ \A k \in 1..Len(tr) :
                  LET f    == F[tr[k].i]
                      rule == TokenAt(F, <<tr[k].i, tr[k].j>>)
                      e    == IF tr[k].pass = "builtin" THEN applyValidationRule(rule, f)
                              ELSE IF rule \in DOMAIN customValidators
                              THEN CallCustom(customValidators[rule], f) ELSE Nil
                  IN  /\ tr[k].failed <=> ~e.nil
                      /\ tr[k].failed => Recorded(k, e.msg)
            /\ Len(Entries(result[1])) = Len(FailedEvents(tr))
            /\ \A p \in Tokens(F) :
                  (RuleName(TokenAt(F, p)) \in {min, max}
                     /\ ~Atoi(RuleValue(TokenAt(F, p))).ok) =>
                        \A k \in EventsAt(tr, "builtin", p) : tr[k].failed

\* A field whose first token fails, whose second is empty and whose third
\* has an unparsable parameter, in a struct whose other field fails too.
C8_Witness ==
    /\ Done(1) /\ WellFormed(call[1].input)
    /\ Len(call[1].input.fields) = 2
    /\ \E k, l, m \in 1..Len(trace[1]) :
          /\ trace[1][k].pass = "builtin" /\ trace[1][k].i = 1 /\ trace[1][k].failed
          /\ trace[1][l].pass = "builtin" /\ trace[1][l].i = 2 /\ trace[1][l].j = 1
          /\ trace[1][l].failed
          /\ trace[1][m].pass = "builtin" /\ trace[1][m].i = 2 /\ trace[1][m].j = 3
          /\ Recorded(m, "invalid min value")

\* C9: min and max parse their parameter first and fail with "invalid min
\* value" / "invalid max value" when it is no base-10 integer, whatever the
\* kind of the field; with the parameter N, min fails exactly when the
\* length of a text or the value of a signed integer is below N, max
\* exactly when it is above N, and a field of another kind never fails; a
\* failing min reports "length must be at least N" or "value must be at
\* least N".
C9_Bounds ==
    (Done(1) /\ WellFormed(call[1].input)) =>
        LET F == call[1].input.fields IN
        \A p \in Tokens(F) : \A k \in EventsAt(trace[1], "builtin", p) :
            LET f    == F[p[1]]
                name == RuleName(TokenAt(F, p))
                n    == Atoi(RuleValue(TokenAt(F, p)))
                fail == trace[1][k].failed
            IN  /\ (name = min /\ ~n.ok) => Recorded(k, "invalid min value")
                /\ (name = max /\ ~n.ok) => Recorded(k, "invalid max value")
                /\ (name = min /\ n.ok) =>
                      /\ fail <=> Below(f, n.val)
                      /\ (fail /\ f.kind = "string") =>
                            Recorded(k, "length must be at least " \o Decimal(n.val))
                      /\ (fail /\ f.kind = "int") =>
                            Recorded(k, "value must be at least " \o Decimal(n.val))
                /\ (name = max /\ n.ok) => (fail <=> Above(f, n.val))

\* A min rule with a negative bound failed on an integer.
C9_Witness ==
    /\ Done(1) /\ WellFormed(call[1].input)
    /\ \E k \in 1..Len(trace[1]) : Recorded(k, "value must be at least -1")

BuiltinNames == {required, min, max, email, regex}

\* C10: a function registered under a token is called once per occurrence
\* of exactly that token in the annotations of the struct; an entry (field,
\* message of the error returned) is appended exactly when it returns an
\* error; a token that is no built-in name and is not registered calls
\* nothing and fails nothing.
C10_CustomInvocation ==
    (Done(1) /\ WellFormed(call[1].input)) =>
        LET F  == call[1].input.fields
            tr == trace[1]
        IN  /\ \A key \in DOMAIN customValidators :
                  {k \in 1..Len(tr) : tr[k].fn # ""
                        /\ TokenAt(F, <<tr[k].i, tr[k].j>>) = key}
                    = UNION {EventsAt(tr, "custom", p) :
                                p \in {q \in Tokens(F) : TokenAt(F, q) = key}}
            /\ \A p \in Tokens(F) :
                  /\ Cardinality(EventsAt(tr, "custom", p)) = 1
                  /\ \A k \in EventsAt(tr, "custom", p) :
                        LET key == TokenAt(F, p) IN
                        IF key \in DOMAIN customValidators
                        THEN LET e == CallCustom(customValidators[key], F[p[1]]) IN
                             /\ tr[k].fn = customValidators[key]
                             /\ tr[k].failed <=> ~e.nil
                             /\ ~e.nil => Recorded(k, e.msg)
                        ELSE tr[k].fn = "" /\ ~tr[k].failed
                  /\ (TokenAt(F, p) \notin DOMAIN customValidators
                        /\ RuleName(TokenAt(F, p)) \notin BuiltinNames) =>
                        \A k \in EventsAt(tr, "builtin", p) \cup EventsAt(tr, "custom", p) :
                            tr[k].fn = "" /\ ~tr[k].failed
            /\ Len(Entries(result[1])) = Len(FailedEvents(tr))

\* A field with a registered token whose function returned an error and
\* the same token with a leading space, which is not registered.
C10_Witness ==
    /\ Done(1) /\ WellFormed(call[1].input)
    /\ \E k, l \in 1..Len(trace[1]) :
          /\ trace[1][k].pass = "custom" /\ trace[1][l].pass = "custom"
          /\ trace[1][k].i = trace[1][l].i
          /\ trace[1][k].fn = "departmentFn"
          /\ Recorded(k, "department must start with DEPT_")
          /\ trace[1][l].fn = ""
          /\ Trim(TokenAt(call[1].input.fields, <<trace[1][l].i, trace[1][l].j>>), " ")
                \in DOMAIN customValidators

-----------------------------------------------------------------------------
(* The two passes over one token.                                          *)

\* The built-in rule of a token failed / its registered function failed,
\* as computed from the token, the field and the registry alone.
BuiltinFails(F, p) == ~applyValidationRule(TokenAt(F, p), F[p[1]]).nil
CustomFails(F, p) ==
    /\ TokenAt(F, p) \in DOMAIN customValidators
    /\ ~CallCustom(customValidators[TokenAt(F, p)], F[p[1]]).nil

\* C11: the built-in dispatch and the registry lookup of one token do not
\* depend on each other: the outcome of the built-in rule is that of the
\* token and the field whatever the registry holds, and the function
\* registered under the whole text of the token is called whether the
\* built-in rule passed, failed or does not exist, so that one token can
\* add a built-in and a custom entry; a function registered under the
\* bare rule name only is not called for a token that carries a parameter.
C11_IndependentLookup ==
    (Done(1) /\ WellFormed(call[1].input)) =>
        LET F  == call[1].input.fields
            tr == trace[1]
        IN  \A p \in Tokens(F) :
                \A b \in EventsAt(tr, "builtin", p) :
                    \A c \in EventsAt(tr, "custom", p) :
                        /\ b < c
                        /\ tr[b].failed <=> BuiltinFails(F, p)
                        /\ tr[c].fn # "" <=> TokenAt(F, p) \in DOMAIN customValidators
                        /\ tr[c].failed <=> CustomFails(F, p)
                        /\ (tr[b].failed /\ tr[c].failed) =>
                              /\ FailRank(tr, b) < FailRank(tr, c)
                              /\ Recorded(b, applyValidationRule(TokenAt(F, p), F[p[1]]).msg)
                              /\ Recorded(c, CallCustom(tr[c].fn, F[p[1]]).msg)
                        /\ (TokenAt(F, p) # RuleName(TokenAt(F, p))
                              /\ TokenAt(F, p) \notin DOMAIN customValidators) =>
                              tr[c].fn = "" /\ ~tr[c].failed

\* With a function registered under "min" only: the token "min" added a
\* built-in and a custom entry, the function was called for a token whose
\* built-in rule passed, and it was not called for the token "min=2".
C11_Witness ==
    /\ Done(1) /\ WellFormed(call[1].input)
    /\ DOMAIN customValidators = {min}
    /\ LET F  == call[1].input.fields
           tr == trace[1]
       IN  /\ \E p \in Tokens(F) :
                 /\ TokenAt(F, p) = min
                 /\ \E b \in EventsAt(tr, "builtin", p), c \in EventsAt(tr, "custom", p) :
                       /\ Recorded(b, "invalid min value")
                       /\ Recorded(c, "department must start with DEPT_")
           /\ \E p \in Tokens(F) :
                 /\ TokenAt(F, p) = Tok(min, <<"2">>)
                 /\ \E b \in EventsAt(tr, "builtin", p), c \in EventsAt(tr, "custom", p) :
                       tr[b].failed /\ tr[c].fn = ""

-----------------------------------------------------------------------------
(* Fields without a validate annotation.                                   *)

\* The indexes of the fields whose validate annotation is absent or empty.
Unannotated(F) == {i \in 1..Len(F) : F[i].tag = <<>>}

\* C12: a field whose validate annotation is absent or empty is left out
\* of both passes: at no point of a call has a built-in rule been
\* evaluated or a registry lookup been made for it, no entry pending or
\* accumulated names it, and the aggregate returned holds none for it,
\* whatever the field holds and whatever is registered.
C12_UnannotatedSkipped ==
    (call[1].pc # "idle" /\ WellFormed(call[1].input)) =>
        LET F == call[1].input.fields IN
        \A i \in Unannotated(F) :
            /\ call[1].i # i
            /\ \A k \in 1..Len(trace[1]) : trace[1][k].i # i
            /\ call[1].pending.Field # F[i].Name
            /\ \A k \in 1..Len(errors) : errors[k].Field # F[i].Name
            /\ \A k \in 1..Len(Entries(result[1])) :
                  Entries(result[1])[k].Field # F[i].Name

\* A call returned the errors of the annotated field of a struct whose
\* other field has no annotation, with a function registered under the
\* empty key.
C12_Witness ==
    /\ Done(1) /\ WellFormed(call[1].input)
    /\ <<>> \in DOMAIN customValidators
    /\ LET F == call[1].input.fields IN
       /\ Unannotated(F) # {} /\ Unannotated(F) # 1..Len(F)
       /\ \E k \in 1..Len(trace[1]) : trace[1][k].fn # "" /\ trace[1][k].failed
    /\ result[1].kind = "ValidationErrors"

-----------------------------------------------------------------------------
(* The regex rule.                                                         *)

\* The compiled pattern, less its anchors, matches the text w from its
\* first to its last character.
WholeMatch(re, w) ==
    /\ Len(w) = Len(re.atoms)
    /\ \A k \in 1..Len(w) : w[k] \in re.atoms[k]

\* The pattern matches the characters a..b of the text v, a stretch that
\* starts the text when the pattern opens with ^ and ends it when the
\* pattern closes with $.
MatchesAt(re, v, a, b) ==
    /\ re.bol => a = 1
    /\ re.eol => b = Len(v)
    /\ WholeMatch(re, SubSeq(v, a, b))

\* The builtin evaluations of the regex tokens of caller 1's struct.
RegexEvents ==
    LET F == call[1].input.fields IN
    {k \in 1..Len(trace[1]) :
        /\ trace[1][k].pass = "builtin"
        /\ RuleName(TokenAt(F, <<trace[1][k].i, trace[1][k].j>>)) = regex}

RegexPattern(k) ==
    RuleValue(TokenAt(call[1].input.fields, <<trace[1][k].i, trace[1][k].j>>))
RegexText(k) == FieldString(call[1].input.fields[trace[1][k].i])

\* C13 as stated: the regex rule fails, with "value does not match
\* required format", unless the whole text of the field matches the
\* pattern; a text of which only a proper substring matches fails.
C13_WholeTextMatch ==
    (Done(1) /\ WellFormed(call[1].input)) =>
        \A k \in RegexEvents :
            LET re == Compile(RegexPattern(k)) IN
            /\ trace[1][k].failed <=>
                  ~(re.ok /\ MatchesAt(re, RegexText(k), 1, Len(RegexText(k))))
            /\ trace[1][k].failed =>
                  Recorded(k, "value does not match required format")

\* C13, amended: the regex rule fails, with "value does not match required
\* format", unless the pattern compiles and matches the text of the field
\* or some stretch of it; the whole text has to match only when the
\* pattern opens with ^ and closes with $.
C13_SubstringMatch ==
    (Done(1) /\ WellFormed(call[1].input)) =>
        \A k \in RegexEvents :
            LET re == Compile(RegexPattern(k))
                v  == RegexText(k)
            IN  /\ trace[1][k].failed <=>
                      ~(re.ok /\ \E a \in 1..(Len(v)+1) : \E b \in (a-1)..Len(v) :
                                    MatchesAt(re, v, a, b))
                /\ trace[1][k].failed =>
                      Recorded(k, "value does not match required format")
                /\ (re.ok /\ re.bol /\ re.eol) =>
                      (trace[1][k].failed <=> ~WholeMatch(re, v))

\* A regex rule passed on a text field of which a proper, non-empty
\* stretch matches the pattern and the whole text does not.
C13_Witness ==
    /\ Done(1) /\ WellFormed(call[1].input)
    /\ result[1].kind = "nil"
    /\ \E k \in RegexEvents :
          LET re == Compile(RegexPattern(k))
              v  == RegexText(k)
          IN  /\ call[1].input.fields[trace[1][k].i].kind = "string"
              /\ re.ok /\ re.atoms # <<>>
              /\ ~WholeMatch(re, v)
              /\ \E a \in 1..Len(v) : \E b \in a..Len(v) : MatchesAt(re, v, a, b)
              /\ ~trace[1][k].failed

-----------------------------------------------------------------------------
(* The two passes of one call.                                             *)

\* The evaluations of a trace that belong to pass `pass`.
PassEvents(tr, pass) == SelectSeq(tr, LAMBDA e : e.pass = pass)

\* The positions of a sequence of evaluations go up strictly.
Ascending(es) == \A k, l \in 1..Len(es) : k < l => PosBefore(es[k], es[l])

\* The entry a failed evaluation adds for the struct F.
EntryOf(F, e) ==
    LET rule == TokenAt(F, <<e.i, e.j>>)
        err  == IF e.pass = "builtin" THEN applyValidationRule(rule, F[e.i])
                ELSE CallCustom(e.fn, F[e.i])
    IN  ValidationError(F[e.i].Name, err.msg)

\* C14: at every point of a call, the evaluations made so far are
\* built-in evaluations followed by custom lookups; the first custom lookup
\* comes when every token of every annotated field has had its built-in
\* evaluation; each pass goes through the tokens by field and, within a
\* field, by token position; and the accumulator holds the entries of the
\* failed evaluations in that order (less the one about to be appended),
\* the built-in entries before the custom ones, as does the aggregate
\* returned.
C14_TwoPasses ==
    (call[1].pc # "idle" /\ WellFormed(call[1].input)) =>
        LET F  == call[1].input.fields
            tr == trace[1]
            bs == PassEvents(tr, "builtin")
            cs == PassEvents(tr, "custom")
            fe == FailedEvents(tr)
            appending == call[1].pc \in {"builtinAppend", "customAppend"}
        IN  /\ tr = bs \o cs
            /\ Ascending(bs) /\ Ascending(cs)
            /\ (cs # <<>> \/ call[1].pc \in {"custom", "finish", "return", "done"}) =>
                  {<<bs[k].i, bs[k].j>> : k \in 1..Len(bs)} = Tokens(F)
            /\ call[1].pc \in {"builtin", "builtinAppend"} => cs = <<>>
            /\ Len(errors) = Len(fe) - (IF appending THEN 1 ELSE 0)
            /\ \A r \in 1..Len(errors) : errors[r] = EntryOf(F, fe[r])
            /\ appending => call[1].pending = EntryOf(F, fe[Len(fe)])
            /\ fe = FailedEvents(bs) \o FailedEvents(cs)
            /\ result[1].kind = "ValidationErrors" => result[1].errs = errors

\* A call on a two-field struct returned the built-in entries of both
\* fields followed by the custom entries of both fields.
C14_Witness ==
    /\ Done(1) /\ WellFormed(call[1].input)
    /\ result[1].kind = "ValidationErrors"
    /\ LET F  == call[1].input.fields
           bf == FailedEvents(PassEvents(trace[1], "builtin"))
           cf == FailedEvents(PassEvents(trace[1], "custom"))
       IN  /\ {bf[k].i : k \in 1..Len(bf)} = {1, 2}
           /\ {cf[k].i : k \in 1..Len(cf)} = {1, 2}
           /\ result[1].errs = [k \in 1..Len(bf) |-> EntryOf(F, bf[k])]
                                 \o [k \in 1..Len(cf) |-> EntryOf(F, cf[k])]

-----------------------------------------------------------------------------
(* The aggregate a caller keeps.                                           *)

RECURSIVE JoinText(_, _)
\* strings.Join(errMsgs, sep)
JoinText(parts, sep) ==
    IF Len(parts) = 0 THEN ""
    ELSE IF Len(parts) = 1 THEN parts[1]
    ELSE parts[1] \o sep \o JoinText(Tail(parts), sep)

\* ValidationErrors.Error (lines 37-45)
Error(ve) == JoinText([k \in 1..Len(ve) |-> ve[k].Field \o " : " \o ve[k].Message], "; ")

\* The entries of the aggregate the caller kept, as they are read now.
HeldEntries == View(heap, held.arr, held.len)

\* C15: the aggregate a caller kept from a Validate call holds, whatever
\* was registered or validated on the instance since, the entries it held
\* when it was returned, and renders the same text.
C15_HeldUnchanged ==
    held.kind = "ValidationErrors" =>
        /\ held.arr \in DOMAIN heap
        /\ HeldEntries = held.errs
        /\ Error(HeldEntries) = Error(held.errs)

\* A caller keeps an aggregate of two entries or more; a function was
\* registered since, and a later call returned another aggregate, of as
\* many entries or fewer.
C15_Witness ==
    /\ held.kind = "ValidationErrors"
    /\ held.len >= 2
    /\ customValidators # held.regs
    /\ Done(1)
    /\ result[1].kind = "ValidationErrors"
    /\ Len(result[1].errs) <= held.len
    /\ result[1].errs # held.errs
    /\ errors = result[1].errs

====
